---- MODULE Spec2Model ----
(***************************************************************************)
(* CryptoBot (src/main.py): an RSS feed is polled by a cron job, the new   *)
(* entries are sent to a Telegram channel, and the ids already handled are *)
(* kept in the in-memory set sent_news_ids.  The bot runs behind a webhook *)
(* server on one asyncio event loop.                                       *)
(*                                                                         *)
(* One action is one run of a coroutine between two suspension points      *)
(* (await): nothing else runs on the loop in between.  on_startup and     *)
(* on_shutdown are one action each: the tasks the loop runs between their  *)
(* awaits can as well run before the first, for all that they read.        *)
(***************************************************************************)
EXTENDS Integers, Sequences, FiniteSets

\* ---------------------------------------------------------------- bounds
MaxFeedLen == 4      \* longest feed the parser hands back
MaxRuns    == 2      \* check cycles fired by the scheduler in one process run
MaxUpdates == 1      \* /start commands received in one process run
NumTasks   == 2      \* check cycles that may be in flight at once

\* ------------------------------------------------------- Python's values
None    == "<None>"          \* Python None
Truthy(v) == v # None /\ v # ""

Min(a, b) == IF a <= b THEN a ELSE b

\* ------------------------------------------------------------ the inputs
\* Environment variables as os.getenv returns them: unset, empty or set.
EnvNames == {"TELEGRAM_TOKEN", "CHANNEL_ID", "WEBHOOK_URL"}
EnvValue(n) == CASE n = "TELEGRAM_TOKEN" -> "123:token"
                 [] n = "CHANNEL_ID"     -> "@channel"
                 [] n = "WEBHOOK_URL"    -> "https://host"
Environments == { e \in [EnvNames -> {None, "", "123:token", "@channel", "https://host"}] :
                    \A n \in EnvNames : e[n] \in {None, "", EnvValue(n)} }

\* Feed entries as feedparser hands them back: a dict whose keys may be
\* missing.  Reading a missing attribute, media_content[0] of an empty list
\* raises.
PhotoA    == [guid |-> "a", link |-> "http://x/a", title |-> "T1", summary |-> "S1",
              media_content |-> <<[url |-> "http://img/a"]>>]
TextB     == [link |-> "b", title |-> "T2", summary |-> "S2"]
EmptyUrlB == [guid |-> "", link |-> "b", title |-> "T3", summary |-> "S1",
              media_content |-> <<[url |-> ""]>>]
NoTitleA  == [guid |-> "a", link |-> "http://x/a", summary |-> "S1"]
TextC     == [guid |-> "c", link |-> "http://x/c", title |-> "T2", summary |-> "S2"]
NoIdEntry == [title |-> "T1", summary |-> "S1"]
BadMediaC == [guid |-> "c", link |-> "http://x/c", title |-> "T1", summary |-> "S2",
              media_content |-> <<>>]
Entries == {PhotoA, TextB, EmptyUrlB, NoTitleA, TextC, NoIdEntry, BadMediaC}

Ids == {"a", "b", "c"}

SeqsUpTo(S, n) == UNION { [1..k -> S] : k \in 0..n }
Feeds == SeqsUpTo(Entries, MaxFeedLen)
\* What feedparser.parse does: it raises, or it hands back the entries.
ParseRaises == [raises |-> TRUE, entries |-> <<>>]
Parsed(f) == [raises |-> FALSE, entries |-> f]
ParseResults == {ParseRaises} \cup { Parsed(f) : f \in Feeds }

\* --------------------------------------------------------- get_latest_news
LatestCount == 3     \* rss_feed.entries[:3]

Has(entry, key) == key \in DOMAIN entry

\* entry.get('guid') or entry.link; entry.link raises when the entry has none.
entry_guid(entry) == IF Has(entry, "guid") THEN entry.guid ELSE None
id_raises(entry)  == ~Truthy(entry_guid(entry)) /\ ~Has(entry, "link")
\* Variant: the link comes first, the guid only when there is no link.
news_id_link_first(entry) == IF Has(entry, "link") THEN entry.link ELSE entry.guid
news_id(entry)    == IF Truthy(entry_guid(entry)) THEN entry.guid ELSE entry.link

\* Building the dict of lines 67-72 reads title, summary and media_content[0]['url'].
item_raises(entry) ==
    \/ ~Has(entry, "title")
    \/ ~Has(entry, "summary")
    \/ /\ Has(entry, "media_content")
       /\ \/ Len(entry.media_content) = 0
          \/ ~Has(entry.media_content[1], "url")
news_item(entry) ==
    [title     |-> entry.title,
     summary   |-> entry.summary,
     image_url |-> IF Has(entry, "media_content") THEN entry.media_content[1].url ELSE None,
     id        |-> news_id(entry)]

\* Variant: line 66 without its test.
not_sent_always(id, sent) == TRUE

\* The membership test of line 66.
not_sent(id, sent) == id \notin sent

\* Variant: line 62 without the slice.
latest_entries_unsliced(entries) == entries

\* The slice of line 62.
latest_entries(entries) == SubSeq(entries, 1, Min(LatestCount, Len(entries)))

\* The for loop of lines 64-72 from position i on, with news_items collected so
\* far; it stops at the first read that raises.
RECURSIVE for_entries(_, _, _, _)
for_entries(latest, i, sent, news_items) ==
    IF i > Len(latest) THEN [raised |-> FALSE, news_items |-> news_items]
    ELSE LET entry == latest[i] IN
         IF id_raises(entry) THEN [raised |-> TRUE, news_items |-> news_items]
         ELSE IF not_sent(news_id(entry), sent)
              THEN IF item_raises(entry)
                   THEN [raised |-> TRUE, news_items |-> news_items]
                   ELSE for_entries(latest, i + 1, sent, Append(news_items, news_item(entry)))
              ELSE for_entries(latest, i + 1, sent, news_items)

\* The try block of lines 56-73: what it returns, or that it raised.
try_get_latest_news(rss, sent) ==
    IF rss.raises THEN [raised |-> TRUE, news_items |-> <<>>]
    ELSE IF Len(rss.entries) = 0 THEN [raised |-> FALSE, news_items |-> <<>>]
    ELSE for_entries(latest_entries(rss.entries), 1, sent, <<>>)

\* How the try block ended: the feed had no entries (line 58), an exception
\* reached line 74, or the list was built.
fetch_outcome(rss, sent) ==
    IF rss.raises THEN "raised"
    ELSE IF Len(rss.entries) = 0 THEN "empty"
    ELSE IF try_get_latest_news(rss, sent).raised THEN "raised"
    ELSE "ok"

\* Variant: the except clause returns what was collected before the exception.
get_latest_news_partial(rss, sent) ==
    LET r == try_get_latest_news(rss, sent) IN
    [raised |-> FALSE, news_items |-> r.news_items, sent |-> sent]

\* Variant: the fetcher itself marks what it returns as sent.
get_latest_news_marking(rss, sent) ==
    LET r == try_get_latest_news(rss, sent) IN
    IF r.raised THEN [raised |-> FALSE, news_items |-> <<>>, sent |-> sent]
    ELSE [raised |-> FALSE, news_items |-> r.news_items,
          sent |-> sent \cup { r.news_items[i].id : i \in DOMAIN r.news_items }]

\* get_latest_news: the except clause turns every exception into [].  The result
\* says what the caller sees: the list returned, whether an exception left the
\* function, and sent_news_ids afterwards (the function only reads it).
get_latest_news(rss, sent) ==
    LET r == try_get_latest_news(rss, sent) IN
    IF r.raised THEN [raised |-> FALSE, news_items |-> <<>>, sent |-> sent]
    ELSE [raised |-> FALSE, news_items |-> r.news_items, sent |-> sent]

\* --------------------------------------------------------- send_to_channel
NoCall == [method |-> "none", chat_id |-> None, photo |-> None, text |-> None]

\* Variant: one newline between title and summary.
caption_one_newline(item) == item.title \o "\n" \o item.summary

\* Line 85.
caption(item) == item.title \o "\n\n" \o item.summary

\* Lines 88-91: the platform call made for an item.
platform_call(item, chat_id) ==
    IF Truthy(item.image_url)
    THEN [method |-> "send_photo", chat_id |-> chat_id, photo |-> item.image_url,
          text |-> caption(item)]
    ELSE [method |-> "send_message", chat_id |-> chat_id, photo |-> None,
          text |-> caption(item)]

\* Variant: send_to_channel without its guard.
already_sent_never(item, sent) == FALSE

\* Line 80: the guard.
already_sent(item, sent) == item.id \in sent

\* Variant: the set is replaced, not added to.
mark_sent_last_only(item, sent) == {item.id}

\* Variant: line 84 is left for after the send.
mark_sent_later(item, sent) == sent

\* Line 84.
mark_sent(item, sent) == sent \cup {item.id}

\* Variant: a failed send takes the id out again, so that it is retried.
on_send_error_retry(item, sent) == [sent |-> sent \ {item.id}, raised |-> FALSE]

\* Variant: the except clause logs and raises again.
on_send_error_raising(item, sent) == [sent |-> sent, raised |-> TRUE]

\* Lines 93-94: a failed send is caught and logged; the set is left as it is
\* and nothing is raised to check_for_new_news.
on_send_error(item, sent) == [sent |-> sent, raised |-> FALSE]

\* send_to_channel up to its await: the set afterwards and the call it waits
\* for (NoCall when the guard returned at line 82).
send_to_channel(item, sent, chat_id) ==
    IF already_sent(item, sent)
    THEN [sent |-> sent, call |-> NoCall]
    ELSE [sent |-> mark_sent(item, sent), call |-> platform_call(item, chat_id)]

\* The loop of lines 100-101 from item i on, run until send_to_channel awaits a
\* platform call or the list is exhausted (i = 0). skipped collects the ids for
\* which the guard returned.
RECURSIVE for_news_items(_, _, _, _, _)
for_news_items(news_items, i, sent, chat_id, skipped) ==
    IF i > Len(news_items)
    THEN [i |-> 0, sent |-> sent, call |-> NoCall, skipped |-> skipped]
    ELSE LET r == send_to_channel(news_items[i], sent, chat_id) IN
         IF r.call = NoCall
         THEN for_news_items(news_items, i + 1, r.sent, chat_id,
                             skipped \cup {news_items[i].id})
         ELSE [i |-> i, sent |-> r.sent, call |-> r.call, skipped |-> skipped]

\* ------------------------------------------------------------------ state
VARIABLES
    env,            \* the environment variables read at lines 22-28
    pc,             \* where the main program is
    exitStatus,     \* the process's exit status, once pc = "exited"
    mainResult,     \* how run_until_complete(main()) ended: "none", "returned",
                    \* "raised", "interrupted"
    bot,            \* TRUE once Bot(token=API_TOKEN) was created
    jobs,           \* number of jobs added to the scheduler
    scheduler,      \* "none", "created", "running", "shutdown"
    sock,           \* the server socket of line 160: "none", "listening", "closed"
    server,         \* the web server: "none", "setup", "listening", "stopped"
    session,        \* the bot's network session: "none", "open", "closed"
    afterCleanup,   \* what main does once runner.cleanup() returns: "raise" or "return"
    events,         \* the lifecycle calls made so far, in order
    sent_news_ids,  \* the set of line 39
    cycles,         \* the check_for_new_news tasks suspended at an awaited send
    sends,          \* the platform sends issued by send_to_channel, in order
    skipped,        \* the ids for which send_to_channel returned at its guard (line 82)
    jobErrors,      \* check cycles ended by an exception
    runs,           \* check cycles fired so far
    replies,        \* message.reply calls made by start_command
    lastFetch,      \* the last call of get_latest_news in a check cycle, and what the
                    \* cycle did before it was first suspended
    fetchCall       \* get_latest_news applied to one input: the input and the result

vars == <<env, pc, exitStatus, mainResult, bot, jobs, scheduler, sock, server, session,
          afterCleanup, events, sent_news_ids, cycles, sends, skipped, jobErrors,
          runs, replies, lastFetch, fetchCall>>

lifecycle == <<env, pc, exitStatus, mainResult, bot, jobs, scheduler, sock, server, session,
               afterCleanup, events>>
newsState == <<sent_news_ids, cycles, sends, skipped, jobErrors, runs, lastFetch>>
hookState == <<replies>>

\* outcome: how the try block ended; raised: an exception left get_latest_news;
\* returned: the length of its result; refetchedFailed: line 66 filtered out an
\* entry whose send had failed.
NoFetch == [outcome |-> "none", raised |-> FALSE, returned |-> 0,
            refetchedFailed |-> FALSE]
NoFetchCall == [called |-> FALSE, rss |-> ParseRaises, sent |-> {},
                raised |-> FALSE, news_items |-> <<>>, sentAfter |-> {}]

\* main is suspended at an await and the loop runs other tasks.
AwaitPcs == {"runner_setup", "site_start", "on_startup", "wait", "runner_cleanup"}
LoopRunning == pc \in AwaitPcs

Init ==
    /\ env \in Environments
    /\ pc = "import"
    /\ exitStatus = 0
    /\ mainResult = "none"
    /\ bot = FALSE
    /\ jobs = 0
    /\ scheduler = "none"
    /\ sock = "none"
    /\ server = "none"
    /\ session = "none"
    /\ afterCleanup = "return"
    /\ events = <<>>
    /\ sent_news_ids = {}
    /\ cycles = {}
    /\ sends = <<>>
    /\ skipped = {}
    /\ jobErrors = 0
    /\ runs = 0
    /\ replies = 0
    /\ lastFetch = NoFetch
    /\ fetchCall = NoFetchCall

\* --------------------------------------------------- module level, lines 22-39
\* Variant: the guard tests `is not None`, so an empty string passes.
config_ok_not_none(e) == \A n \in EnvNames : e[n] # None

\* all([API_TOKEN, CHANNEL_ID, BASE_WEBHOOK_URL])
config_ok(e) == \A n \in EnvNames : Truthy(e[n])

\* Lines 30-39: exit(1) when a required variable is missing, else the bot, the
\* dispatcher, the scheduler and the empty set are created.
module_level ==
    /\ pc = "import"
    /\ IF config_ok(env)
       THEN /\ pc' = "main"
            /\ bot' = TRUE
            /\ session' = "open"
            /\ scheduler' = "created"
            /\ UNCHANGED exitStatus
       ELSE /\ pc' = "exited"
            /\ exitStatus' = 1
            /\ UNCHANGED <<bot, session, scheduler>>
    /\ sent_news_ids' = {}
    /\ UNCHANGED <<env, mainResult, jobs, sock, server, afterCleanup, events, cycles,
                   sends, skipped, jobErrors, runs, lastFetch, hookState, fetchCall>>

\* ------------------------------------------------------ __main__, lines 196-206
\* run_until_complete(main()) ended: main returned, or its exception, or the
\* KeyboardInterrupt, was logged; the loop is closed and the interpreter ends.
\* Nothing is awaited on the way, so it is part of the step that ends main.
run_until_complete_ends(how, evs) ==
    /\ pc' = "exited"
    /\ exitStatus' = 0
    /\ mainResult' = how
    /\ events' = evs \o <<"loop_close">>

\* ------------------------------------------------------------ main, lines 136-194
\* Lines 137-174, up to the first await: the port check, the job, the scheduler,
\* the application and the server socket.
main(portFree, bindOk) ==
    /\ pc = "main"
    /\ IF ~portFree
       THEN /\ run_until_complete_ends("returned", events \o <<"port_check_failed">>)
            /\ UNCHANGED <<jobs, scheduler, sock>>
       ELSE /\ jobs' = jobs + 1
            /\ scheduler' = "running"
            /\ IF bindOk
               THEN /\ sock' = "listening"
                    /\ pc' = "runner_setup"
                    /\ events' = events \o <<"port_check", "scheduler_start", "bind">>
                    /\ UNCHANGED <<exitStatus, mainResult>>
               ELSE /\ sock' = "closed"
                    /\ run_until_complete_ends("raised",
                           events \o <<"port_check", "scheduler_start", "bind_failed">>)
    /\ UNCHANGED <<env, bot, server, session, afterCleanup, newsState, hookState,
                   fetchCall>>

\* Lines 173-175: runner.setup() returns or raises; the site is then built. Both
\* are outside any try.
runner_setup(ok, siteOk) ==
    /\ pc = "runner_setup"
    /\ IF ok /\ siteOk
       THEN /\ pc' = "site_start"
            /\ server' = "setup"
            /\ events' = Append(events, "runner_setup")
            /\ UNCHANGED <<exitStatus, mainResult>>
       ELSE /\ server' = IF ok THEN "setup" ELSE server
            /\ run_until_complete_ends("raised",
                   Append(events, IF ok THEN "runner_setup" ELSE "runner_setup_failed"))
    /\ UNCHANGED <<env, bot, jobs, scheduler, sock, session, afterCleanup, newsState,
                   hookState, fetchCall>>

\* Variant: the except clause of lines 179-182 only logs, and main goes on.
site_start_continuing(ok) ==
    /\ pc = "site_start"
    /\ pc' = "on_startup"
    /\ server' = IF ok THEN "listening" ELSE server
    /\ events' = Append(events, IF ok THEN "site_start" ELSE "site_start_failed")
    /\ UNCHANGED <<env, exitStatus, mainResult, bot, jobs, scheduler, sock, session,
                   afterCleanup, newsState, hookState, fetchCall>>

\* Lines 176-182: site.start() returns, or raises and runner.cleanup() is awaited
\* before the exception is raised again.
site_start(ok) ==
    /\ pc = "site_start"
    /\ IF ok
       THEN /\ pc' = "on_startup"
            /\ server' = "listening"
            /\ events' = Append(events, "site_start")
            /\ UNCHANGED afterCleanup
       ELSE /\ pc' = "runner_cleanup"
            /\ afterCleanup' = "raise"
            /\ events' = Append(events, "site_start_failed")
            /\ UNCHANGED server
    /\ UNCHANGED <<env, exitStatus, mainResult, bot, jobs, scheduler, sock, session,
                   newsState, hookState, fetchCall>>

\* Variant: on_startup logs the exception and does not raise it again.
on_startup_swallowing(setOk, meOk) ==
    /\ pc = "on_startup"
    /\ pc' = "wait"
    /\ events' = events \o (IF ~setOk THEN <<"set_webhook_failed">>
                            ELSE IF ~meOk THEN <<"set_webhook", "get_me_failed">>
                            ELSE <<"set_webhook", "get_me">>)
    /\ UNCHANGED <<env, exitStatus, mainResult, bot, jobs, scheduler, sock, server,
                   session, afterCleanup, newsState, hookState, fetchCall>>

\* on_startup, lines 104-113, awaited at line 185: bot.set_webhook and bot.get_me
\* return, or one of them raises; the exception is logged and raised again, out
\* of main.
on_startup(setOk, meOk) ==
    /\ pc = "on_startup"
    /\ IF setOk /\ meOk
       THEN /\ pc' = "wait"
            /\ events' = events \o <<"set_webhook", "get_me">>
            /\ UNCHANGED <<exitStatus, mainResult>>
       ELSE run_until_complete_ends("raised",
                events \o (IF ~setOk THEN <<"set_webhook_failed">>
                           ELSE <<"set_webhook", "get_me_failed">>))
    /\ UNCHANGED <<env, bot, jobs, scheduler, sock, server, session, afterCleanup,
                   newsState, hookState, fetchCall>>

\* Variant: the finally clause awaits runner.cleanup() first and stops the site
\* after it.
cancelled_cleanup_first ==
    /\ pc = "wait"
    /\ pc' = "runner_cleanup"
    /\ afterCleanup' = "return"
    /\ events' = Append(events, "cancelled")
    /\ UNCHANGED <<env, exitStatus, mainResult, bot, jobs, scheduler, sock, server,
                   session, newsState, hookState, fetchCall>>

\* Lines 188-193: the wait is cancelled (the task of main is cancelled from
\* outside; nothing in the program does it); the finally clause awaits site.stop(),
\* which closes the listening server and with it the socket, and then awaits
\* runner.cleanup().
cancelled ==
    /\ pc = "wait"
    /\ pc' = "runner_cleanup"
    /\ afterCleanup' = "return"
    /\ server' = "stopped"
    /\ sock' = "closed"
    /\ events' = events \o <<"cancelled", "site_stop", "socket_release">>
    /\ UNCHANGED <<env, exitStatus, mainResult, bot, jobs, scheduler, session,
                   newsState, hookState, fetchCall>>

\* Variant: delete_webhook is awaited outside a try, so its exception leaves
\* on_shutdown and runner.cleanup().
on_shutdown_unguarded(deleteOk) ==
    /\ pc = "runner_cleanup"
    /\ session' = IF deleteOk THEN "closed" ELSE session
    /\ scheduler' = IF deleteOk THEN "shutdown" ELSE scheduler
    /\ IF deleteOk
       THEN run_until_complete_ends(IF afterCleanup = "raise" THEN "raised" ELSE "returned",
                events \o <<"delete_webhook", "session_close", "scheduler_shutdown",
                            "runner_cleanup">>)
       ELSE run_until_complete_ends("raised", Append(events, "delete_webhook_failed"))
    /\ UNCHANGED <<env, bot, jobs, sock, server, afterCleanup, newsState, hookState,
                   fetchCall>>

\* on_shutdown, lines 116-128, run by runner.cleanup() (lines 181, 194):
\* bot.delete_webhook returns or raises and the exception is logged; the session
\* is closed; the scheduler is shut down without waiting. Then main ends: it
\* raises again (line 182) or returns.
on_shutdown(deleteOk) ==
    /\ pc = "runner_cleanup"
    /\ session' = "closed"
    /\ scheduler' = "shutdown"
    /\ run_until_complete_ends(IF afterCleanup = "raise" THEN "raised" ELSE "returned",
           events \o <<IF deleteOk THEN "delete_webhook" ELSE "delete_webhook_failed",
                       "session_close", "scheduler_shutdown", "runner_cleanup">>)
    /\ UNCHANGED <<env, bot, jobs, sock, server, afterCleanup, newsState, hookState,
                   fetchCall>>

\* Ctrl-C while the loop runs: run_until_complete raises KeyboardInterrupt
\* (line 200); main is left where it was suspended.
keyboard_interrupt ==
    /\ LoopRunning
    /\ run_until_complete_ends("interrupted", Append(events, "keyboard_interrupt"))
    /\ UNCHANGED <<env, bot, jobs, scheduler, sock, server, session, afterCleanup,
                   newsState, hookState, fetchCall>>

\* ------------------------------------------- check_for_new_news, lines 97-101
\* get_latest_news reads rss_feed.entries[:3] and nothing else of the feed
\* (line 62), so a check cycle's feed is given by its first LatestCount entries.
\* The entries the cycles meet: a photo, a text, a text with an empty media url
\* under the id of the other text, and an entry that cannot be read.
CycleEntries == {PhotoA, TextB, EmptyUrlB, NoTitleA}
CycleParseResults ==
    {ParseRaises} \cup { Parsed(f) : f \in SeqsUpTo(CycleEntries, LatestCount) }

\* A task suspended at the send of news_items[i], the call-th platform send.
\* The tasks and the sends after the loop ran on from item i (r). A send records
\* whether the item's id was in sent_news_ids when line 89/91 made the call.
cycles_after(others, news_items, r, log) ==
    IF r.i = 0 THEN others
    ELSE others \cup {[rest |-> SubSeq(news_items, r.i + 1, Len(news_items)),
                       call |-> Len(log) + 1]}
sends_after(news_items, r, log) ==
    IF r.i = 0 THEN log
    ELSE Append(log, [call |-> r.call, item |-> news_items[r.i], status |-> "pending",
                      marked |-> news_items[r.i].id \in r.sent])

\* Line 66 filtered out an entry for whose id a send had failed.
refetched_failed(rss, sent) ==
    /\ fetch_outcome(rss, sent) = "ok"
    /\ \E i \in DOMAIN latest_entries(rss.entries), k \in DOMAIN sends :
         /\ news_id(rss.entries[i]) \in sent
         /\ sends[k].item.id = news_id(rss.entries[i])
         /\ sends[k].status = "failed"

\* The scheduler fires the job: get_latest_news (which blocks the loop), then the
\* loop over its result up to the first awaited send. add_job (line 143) sets no
\* limit of its own, so a cycle may start while another awaits its send.
run_check_for_new_news(rss) ==
    /\ LoopRunning
    /\ scheduler = "running"
    /\ runs < MaxRuns
    /\ Cardinality(cycles) < NumTasks
    /\ runs' = runs + 1
    /\ LET got == get_latest_news(rss, sent_news_ids)
           r   == for_news_items(got.news_items, 1, got.sent, env["CHANNEL_ID"], {})
       IN /\ lastFetch' = [outcome         |-> fetch_outcome(rss, sent_news_ids),
                           raised          |-> got.raised,
                           returned        |-> Len(got.news_items),
                           refetchedFailed |-> refetched_failed(rss, sent_news_ids)]
          /\ IF got.raised
             THEN /\ sent_news_ids' = got.sent
                  /\ jobErrors' = jobErrors + 1
                  /\ UNCHANGED <<sends, cycles, skipped>>
             ELSE /\ sent_news_ids' = r.sent
                  /\ cycles' = cycles_after(cycles, got.news_items, r, sends)
                  /\ sends' = sends_after(got.news_items, r, sends)
                  /\ skipped' = skipped \cup r.skipped
                  /\ UNCHANGED jobErrors
    /\ UNCHANGED <<lifecycle, hookState>>

check_for_new_news(rss) ==
    /\ run_check_for_new_news(rss)
    /\ UNCHANGED fetchCall

\* The awaited send of lines 89/91 returns or raises (lines 92-94), and the loop
\* of line 100 goes on to the next awaited send.
send_returns(cy, ok) ==
    /\ LoopRunning
    /\ cy \in cycles
    /\ LET item  == sends[cy.call].item
           e     == IF ok THEN [sent |-> sent_news_ids, raised |-> FALSE]
                    ELSE on_send_error(item, sent_news_ids)
           r     == for_news_items(cy.rest, 1, e.sent, env["CHANNEL_ID"], {})
           done  == [sends EXCEPT ![cy.call].status = IF ok THEN "ok" ELSE "failed"]
       IN IF e.raised
          THEN /\ sent_news_ids' = e.sent
               /\ cycles' = cycles \ {cy}
               /\ sends' = done
               /\ jobErrors' = jobErrors + 1
               /\ UNCHANGED skipped
          ELSE /\ sent_news_ids' = r.sent
               /\ cycles' = cycles_after(cycles \ {cy}, cy.rest, r, done)
               /\ sends' = sends_after(cy.rest, r, done)
               /\ skipped' = skipped \cup r.skipped
               /\ UNCHANGED jobErrors
    /\ UNCHANGED <<lifecycle, hookState, runs, lastFetch, fetchCall>>

\* ---------------------------------------------------- webhook, lines 130-133
\* An update with /start reaches the dispatcher: start_command replies.
start_command ==
    /\ LoopRunning
    /\ server = "listening"
    /\ replies < MaxUpdates
    /\ replies' = replies + 1
    /\ UNCHANGED <<lifecycle, newsState, fetchCall>>

\* Any other update: no handler is registered for it (line 131 registers the
\* only one), and nothing changes.
other_update ==
    /\ LoopRunning
    /\ server = "listening"
    /\ UNCHANGED vars

\* ---------------------------------------------------------- specification
Next ==
    \/ module_level
    \/ \E portFree \in BOOLEAN, bindOk \in BOOLEAN : main(portFree, bindOk)
    \/ \E ok \in BOOLEAN, siteOk \in BOOLEAN : runner_setup(ok, siteOk)
    \/ \E ok \in BOOLEAN : site_start(ok)
    \/ \E setOk \in BOOLEAN, meOk \in BOOLEAN : on_startup(setOk, meOk)
    \/ cancelled
    \/ \E deleteOk \in BOOLEAN : on_shutdown(deleteOk)
    \/ keyboard_interrupt
    \/ \E rss \in CycleParseResults : check_for_new_news(rss)
    \/ \E cy \in cycles, ok \in BOOLEAN : send_returns(cy, ok)
    \/ start_command
    \/ other_update

Spec == Init /\ [][Next]_vars

\* runner.cleanup() (lines 181, 194) awaits on_shutdown, whose calls return or
\* raise: the step that ends it is taken.
SpecLive == Spec /\ WF_vars(\E deleteOk \in BOOLEAN : on_shutdown(deleteOk))

\* ------------------------------------------------ get_latest_news on its own
\* Every Dedup Set and every feed: the function is applied once.
InitFetch ==
    /\ env = [n \in EnvNames |-> EnvValue(n)]
    /\ pc = "wait"
    /\ exitStatus = 0
    /\ mainResult = "none"
    /\ bot = TRUE
    /\ jobs = 1
    /\ scheduler = "running"
    /\ sock = "listening"
    /\ server = "listening"
    /\ session = "open"
    /\ afterCleanup = "return"
    /\ events = <<>>
    /\ sent_news_ids \in SUBSET Ids
    /\ cycles = {}
    /\ sends = <<>>
    /\ skipped = {}
    /\ jobErrors = 0
    /\ runs = 0
    /\ replies = 0
    /\ lastFetch = NoFetch
    /\ fetchCall = NoFetchCall

apply_get_latest_news(rss) ==
    /\ ~fetchCall.called
    /\ LET got == get_latest_news(rss, sent_news_ids)
       IN fetchCall' = [called |-> TRUE, rss |-> rss, sent |-> sent_news_ids,
                        raised |-> got.raised, news_items |-> got.news_items,
                        sentAfter |-> got.sent]
    /\ UNCHANGED <<lifecycle, newsState, hookState>>

NextFetch == \E rss \in ParseResults : apply_get_latest_news(rss)

SpecFetch == InitFetch /\ [][NextFetch]_vars

\* ------------------------------------------------- one check cycle on its own
\* Every Dedup Set and every feed (its first LatestCount entries, which is all
\* that line 62 reads): one check cycle runs, each of its sends returning or
\* raising, and what get_latest_news returned to it is kept.
OneCycleParseResults ==
    {ParseRaises} \cup { Parsed(f) : f \in SeqsUpTo(Entries, LatestCount) }

one_check_for_new_news(rss) ==
    /\ ~fetchCall.called
    /\ run_check_for_new_news(rss)
    /\ LET got == get_latest_news(rss, sent_news_ids)
       IN fetchCall' = [called |-> TRUE, rss |-> rss, sent |-> sent_news_ids,
                        raised |-> got.raised, news_items |-> got.news_items,
                        sentAfter |-> got.sent]

NextCycle ==
    \/ \E rss \in OneCycleParseResults : one_check_for_new_news(rss)
    \/ \E cy \in cycles, ok \in BOOLEAN : send_returns(cy, ok)

SpecCycle == InitFetch /\ [][NextCycle]_vars

\* ------------------------------------------------------------------ claims
InSeq(x, seq) == \E i \in DOMAIN seq : seq[i] = x
SendsFor(id) == { k \in DOMAIN sends : sends[k].item.id = id }
FailedSends == { k \in DOMAIN sends : sends[k].status = "failed" }

\* C1: however often send_to_channel is called with items of one id, and
\* whatever became of the first send, at most one platform send is issued for
\* that id.
C1_AtMostOneSendPerId ==
    \A id \in Ids : Cardinality(SendsFor(id)) <= 1

\* send_to_channel returned at its guard for an id whose one send had failed.
C1_Witness ==
    \E k \in FailedSends :
        /\ sends[k].item.id \in skipped
        /\ SendsFor(sends[k].item.id) = {k}

\* C2: no item get_latest_news returns has an id that was in the Dedup Set when
\* it was called.
C2_NoSentItemReturned ==
    fetchCall.called =>
        \A i \in DOMAIN fetchCall.news_items :
            fetchCall.news_items[i].id \notin fetchCall.sent

\* An entry among the first three was in the Dedup Set, and another was returned.
C2_Witness ==
    /\ fetchCall.called
    /\ fetchCall.news_items # <<>>
    /\ \E i \in 1..Min(LatestCount, Len(fetchCall.rss.entries)) :
          /\ ~id_raises(fetchCall.rss.entries[i])
          /\ news_id(fetchCall.rss.entries[i]) \in fetchCall.sent

WellFormed(entry) == ~id_raises(entry) /\ ~item_raises(entry)
FirstN(seq, n) == SubSeq(seq, 1, Min(n, Len(seq)))
\* The items of the entries of a sequence whose id is not in sent, in order.
UnsentItems(entries, sent) ==
    LET Unsent(e) == news_id(e) \notin sent
        kept == SelectSeq(entries, Unsent)
    IN [i \in DOMAIN kept |-> news_item(kept[i])]
\* A read of the first three entries raises: an entry without an id, or an
\* unsent entry whose fields cannot be read.
ReadRaises(rss, sent) ==
    \/ rss.raises
    \/ \E i \in 1..Min(3, Len(rss.entries)) :
          \/ id_raises(rss.entries[i])
          \/ news_id(rss.entries[i]) \notin sent /\ item_raises(rss.entries[i])

\* C3 as claimed: the result is the first min(3, k) of the k feed entries whose
\* id is not in the Dedup Set, wherever in the feed they stand (stated for
\* feeds whose entries can all be read).
C3_AsClaimed ==
    ( /\ fetchCall.called
      /\ ~fetchCall.rss.raises
      /\ \A i \in DOMAIN fetchCall.rss.entries : WellFormed(fetchCall.rss.entries[i]) )
    => fetchCall.news_items = FirstN(UnsentItems(fetchCall.rss.entries, fetchCall.sent), 3)

\* C3 as amended: the result is, in feed order, the items of those of the first
\* three feed entries whose id is not in the Dedup Set (and empty when a read
\* raises); entries at position 4 or later are never returned.
C3_FirstThreeFiltered ==
    fetchCall.called =>
        fetchCall.news_items =
            IF ReadRaises(fetchCall.rss, fetchCall.sent) THEN <<>>
            ELSE UnsentItems(FirstN(fetchCall.rss.entries, 3), fetchCall.sent)

\* The first three entries are sent, the fourth is not, and nothing is returned.
C3_Witness ==
    /\ fetchCall.called
    /\ ~fetchCall.rss.raises
    /\ Len(fetchCall.rss.entries) = 4
    /\ \A i \in 1..4 : WellFormed(fetchCall.rss.entries[i])
    /\ \A i \in 1..3 : news_id(fetchCall.rss.entries[i]) \in fetchCall.sent
    /\ news_id(fetchCall.rss.entries[4]) \notin fetchCall.sent
    /\ fetchCall.news_items = <<>>

DeleteWebhookAttempts ==
    Cardinality({ i \in DOMAIN events :
                    events[i] \in {"delete_webhook", "delete_webhook_failed"} })
\* The launch got as far as on_startup: bot.set_webhook was called.
RegistrationAttempted ==
    InSeq("set_webhook", events) \/ InSeq("set_webhook_failed", events)

\* C4: when the process has stopped, bot.delete_webhook was attempted exactly
\* once, whatever failed before; stated for the runs in which the launch got
\* as far as registering the webhook, whether or not that succeeded.
C4_AsClaimed ==
    (pc = "exited" /\ RegistrationAttempted) => DeleteWebhookAttempts = 1

\* C5: a failed send is not raised, its id stays in the Dedup Set, and no other
\* send is ever issued for that id.
C5_FailedSendNotRetried ==
    /\ jobErrors = 0
    /\ \A k \in FailedSends :
          /\ sends[k].item.id \in sent_news_ids
          /\ SendsFor(sends[k].item.id) = {k}

\* A later cycle fetched the failed item among the first three entries.
C5_Witness ==
    /\ lastFetch.refetchedFailed
    /\ FailedSends # {}
    /\ runs >= 2

\* C6: a check cycle whose feed is empty, or whose fetch raises, gets an empty
\* list and no exception, changes neither the Dedup Set nor the sends, and ends.
C6_EmptyOrFailedFetchDoesNothing ==
    [][ (runs' # runs /\ lastFetch'.outcome \in {"empty", "raised"})
        => /\ lastFetch'.returned = 0
           /\ ~lastFetch'.raised
           /\ jobErrors' = jobErrors
           /\ sent_news_ids' = sent_news_ids
           /\ sends' = sends
           /\ cycles' = cycles ]_vars

\* A fetch raised in a cycle that ran after an earlier one had sent.
C6_Witness ==
    /\ lastFetch.outcome = "raised"
    /\ runs = 2
    /\ sent_news_ids # {}
    /\ Len(sends) = Cardinality(sent_news_ids)

\* C7: with a required variable unset or empty, the process exits with status 1
\* and has created no bot, added no job, bound no socket and made no call.
C7_MissingConfigExitsFirst ==
    ( /\ \E n \in EnvNames : env[n] \in {None, ""}
      /\ pc # "import" )
    => /\ pc = "exited"
       /\ exitStatus = 1
       /\ ~bot
       /\ jobs = 0
       /\ scheduler = "none"
       /\ sock = "none"
       /\ server = "none"
       /\ events = <<>>
       /\ sends = <<>>
       /\ runs = 0
       /\ replies = 0

\* The process ended at the guard because CHANNEL_ID is the empty string.
C7_Witness ==
    /\ pc = "exited"
    /\ exitStatus = 1
    /\ env["CHANNEL_ID"] = ""
    /\ env["TELEGRAM_TOKEN"] # None
    /\ env["WEBHOOK_URL"] # None

\* Every id in the Dedup Set has exactly one platform call.
OneCallPerDelivery == \A id \in sent_news_ids : Cardinality(SendsFor(id)) = 1
CaptionOf(item) == item.title \o "\n\n" \o item.summary
IsPhotoCall(k) ==
    /\ sends[k].call.method = "send_photo"
    /\ sends[k].call.photo = sends[k].item.image_url
    /\ sends[k].call.text = CaptionOf(sends[k].item)
IsMessageCall(k) ==
    /\ sends[k].call.method = "send_message"
    /\ sends[k].call.text = CaptionOf(sends[k].item)

\* C8 as claimed: one call per delivered item, send_photo when image_url is
\* present (not None), send_message when it is absent.
C8_AsClaimed ==
    /\ OneCallPerDelivery
    /\ \A k \in DOMAIN sends :
          IF sends[k].item.image_url # None THEN IsPhotoCall(k) ELSE IsMessageCall(k)

\* C8 as amended: one call per delivered item, send_photo when image_url is a
\* non-empty string, send_message when it is None or the empty string.
C8_CallChosenByMedia ==
    /\ OneCallPerDelivery
    /\ \A k \in DOMAIN sends :
          IF sends[k].item.image_url \notin {None, ""}
          THEN IsPhotoCall(k) ELSE IsMessageCall(k)

\* A photo was sent for one item and a message for another.
C8_Witness ==
    /\ \E k \in DOMAIN sends : sends[k].item.image_url \notin {None, ""}
    /\ \E k \in DOMAIN sends : sends[k].item.image_url \in {None, ""}

\* C9: no step removes an id from the Dedup Set.
C9_DedupSetOnlyGrows ==
    [][sent_news_ids \subseteq sent_news_ids']_vars

\* Two ids were marked, a send failed, /start was answered and shutdown ran.
C9_Witness ==
    /\ Cardinality(sent_news_ids) = 2
    /\ FailedSends # {}
    /\ replies > 0
    /\ scheduler = "shutdown"
    /\ pc = "exited"

\* C10: the Dedup Set changes only in a step of a check cycle (not of the
\* lifecycle, not of a webhook update), and then by exactly the id of the send
\* which send_to_channel issues in that step.
C10_OnlySendToChannelWrites ==
    [][ sent_news_ids' # sent_news_ids
        => /\ UNCHANGED <<lifecycle, hookState>>
           /\ Len(sends') = Len(sends) + 1
           /\ sent_news_ids' = sent_news_ids \cup {sends'[Len(sends')].item.id} ]_vars

\* get_latest_news, /start, on_startup and on_shutdown have all run, and the
\* set holds an id.
C10_Witness ==
    /\ sent_news_ids # {}
    /\ lastFetch.outcome = "ok"
    /\ replies > 0
    /\ InSeq("get_me", events)
    /\ InSeq("scheduler_shutdown", events)

PendingSends == { k \in DOMAIN sends : sends[k].status = "pending" }

\* C11 as claimed: the id of an item enters the Dedup Set only after the send
\* for it was issued (so it is not in the set when the call is made), and each
\* id in the set has had a send issued for it.
C11_AsClaimed ==
    /\ \A k \in DOMAIN sends : ~sends[k].marked
    /\ \A id \in sent_news_ids : SendsFor(id) # {}

\* C11 as amended: the id is put into the Dedup Set before the send is issued,
\* in the same uninterrupted step, so each id in the set has had a send issued
\* for it and each send issued found its id in the set; the ids with a send
\* are exactly the ids of the set.
C11_MarkedBeforeSendIssued ==
    /\ \A k \in DOMAIN sends : sends[k].marked /\ sends[k].item.id \in sent_news_ids
    /\ \A id \in sent_news_ids : SendsFor(id) # {}

\* Two sends are awaited, neither has returned, and both ids are in the set.
C11_Witness ==
    /\ Cardinality(PendingSends) = 2
    /\ Cardinality({ sends[k].item.id : k \in PendingSends }) = 2
    /\ \A k \in PendingSends : sends[k].item.id \in sent_news_ids

\* The port was taken, bind or the server start raised, or set_webhook or get_me
\* raised.
LaunchFailures == {"port_check_failed", "bind_failed", "runner_setup_failed",
                   "site_start_failed", "set_webhook_failed", "get_me_failed"}
LaunchFailed == \E i \in DOMAIN events : events[i] \in LaunchFailures

\* C12: after a launch failure main goes no further than the cleanup of its
\* except clause and never reaches its wait; the process ends; and once it has
\* ended no check cycle runs, no send is issued or answered and the Dedup Set
\* stays as it is.
C12_LaunchFailureIsFatal ==
    /\ [](LaunchFailed => /\ pc \in {"exited", "runner_cleanup"}
                          /\ pc = "runner_cleanup" => afterCleanup = "raise"
                          /\ pc = "exited" => mainResult # "none")
    /\ (LaunchFailed ~> pc = "exited")
    /\ [][pc = "exited" => UNCHANGED <<pc, newsState, hookState, events>>]_vars

\* The server start failed while a send was awaited; the process ended with the
\* send unanswered and with a check cycle still to be fired.
C12_Witness ==
    /\ pc = "exited"
    /\ InSeq("site_start_failed", events)
    /\ InSeq("scheduler_shutdown", events)
    /\ PendingSends # {}
    /\ runs < MaxRuns

DeleteAttempts == {"delete_webhook", "delete_webhook_failed"}
HandlerSteps == DeleteAttempts \cup {"session_close", "scheduler_shutdown"}

\* C13 as claimed: the listening socket is released only after the webhook
\* deregistration was attempted, the session closed and the scheduler stopped,
\* which happen in this order.
C13_AsClaimed ==
    \A i \in DOMAIN events :
        /\ events[i] \in DeleteAttempts =>
               /\ i + 2 <= Len(events)
               /\ events[i + 1] = "session_close"
               /\ events[i + 2] = "scheduler_shutdown"
        /\ events[i] = "socket_release" =>
               \A j \in DOMAIN events : events[j] \in HandlerSteps => j < i

\* C13 as amended: the shutdown handler attempts the deregistration, then
\* closes the session, then stops the scheduler; when the shutdown follows the
\* cancellation of the wait the listening socket was released before the
\* handler began, and when it follows a failed server start the socket is not
\* released by the program at all.
C13_SocketReleasedBeforeHandler ==
    \A i \in DOMAIN events :
        events[i] \in DeleteAttempts =>
            /\ i + 2 <= Len(events)
            /\ events[i + 1] = "session_close"
            /\ events[i + 2] = "scheduler_shutdown"
            /\ session = "closed"
            /\ scheduler = "shutdown"
            /\ IF InSeq("cancelled", events)
               THEN /\ \E j \in 1..(i - 1) : events[j] = "socket_release"
                    /\ sock = "closed"
                    /\ server = "stopped"
               ELSE /\ InSeq("site_start_failed", events)
                    /\ ~InSeq("socket_release", events)
                    /\ sock = "listening"

\* The wait was cancelled and the whole shutdown ran, the deregistration
\* succeeding.
C13_Witness ==
    /\ pc = "exited"
    /\ mainResult = "returned"
    /\ InSeq("cancelled", events)
    /\ InSeq("delete_webhook", events)
    /\ events[Len(events)] = "loop_close"

SetWebhookCalls == { i \in DOMAIN events : events[i] \in {"set_webhook", "set_webhook_failed"} }
ServerNotStarted == {"port_check_failed", "bind_failed", "runner_setup_failed",
                     "site_start_failed"}

\* C14: bot.set_webhook is called at most once, exactly once when the launch
\* reached main's wait, only after site.start() returned and with the server
\* still listening, and never when the port check, bind or the server start
\* failed.
C14_RegisteredOnceAfterServerStart ==
    /\ Cardinality(SetWebhookCalls) <= 1
    /\ InSeq("get_me", events) =>
           Cardinality({ i \in DOMAIN events : events[i] = "set_webhook" }) = 1
    /\ pc = "wait" => InSeq("get_me", events) /\ server = "listening"
    /\ \A i \in SetWebhookCalls :
           /\ \E j \in 1..(i - 1) : events[j] = "site_start"
           /\ \A j \in 1..(i - 1) : events[j] \notin {"site_stop", "socket_release"}
    /\ (\E j \in DOMAIN events : events[j] \in ServerNotStarted) => SetWebhookCalls = {}

\* The launch succeeded, the webhook is registered and a /start was answered.
C14_Witness ==
    /\ pc = "wait"
    /\ Cardinality(SetWebhookCalls) = 1
    /\ server = "listening"
    /\ sock = "listening"
    /\ replies > 0

\* The id the claim gives an entry: its guid when it has a non-empty one, its
\* link otherwise.
GuidElseLink(e) == IF "guid" \in DOMAIN e /\ e.guid # "" THEN e.guid ELSE e.link
\* The feed entries an item's title, summary and image can have come from.
SourceEntries(item) ==
    { e \in CycleEntries :
        /\ {"title", "summary"} \subseteq DOMAIN e
        /\ item.title = e.title
        /\ item.summary = e.summary
        /\ item.image_url = IF "media_content" \in DOMAIN e
                            THEN e.media_content[1].url ELSE None }

\* C15: every item handed to the notifier carries as id the guid of its entry
\* when that is non-empty and the link otherwise; the ids the notifier inserts
\* and the ids at which its guard returns are these ids, and the fetcher and
\* the guard test the same id, so that entries which share it get one send.
C15_IdIsGuidElseLink ==
    /\ \A k \in DOMAIN sends :
           /\ SourceEntries(sends[k].item) # {}
           /\ \A e \in SourceEntries(sends[k].item) : sends[k].item.id = GuidElseLink(e)
    /\ sent_news_ids = { sends[k].item.id : k \in DOMAIN sends }
    /\ skipped \subseteq sent_news_ids
    /\ \A k1, k2 \in DOMAIN sends :
           (\E e1 \in SourceEntries(sends[k1].item), e2 \in SourceEntries(sends[k2].item) :
               GuidElseLink(e1) = GuidElseLink(e2)) => k1 = k2

\* An entry with an empty guid was sent under its link and one with a guid
\* under its guid; an entry without guid but with the same link was stopped
\* at the notifier's guard in that cycle and filtered by the fetcher in the next.
C15_Witness ==
    /\ \E k \in DOMAIN sends : sends[k].item.image_url = "" /\ sends[k].item.id = "b"
    /\ \E k \in DOMAIN sends : sends[k].item.id = "a"
    /\ "b" \in skipped
    /\ runs = 2
    /\ lastFetch.outcome = "ok"
    /\ lastFetch.returned = 0

\* The items of a list that are the first of their id in it, in order, and the
\* ids that occur again.
FirstOfId(items) ==
    LET IsFirst(i) == \A j \in 1..(i - 1) : items[j].id # items[i].id
        F[i \in 0..Len(items)] ==
            IF i = 0 THEN <<>>
            ELSE IF IsFirst(i) THEN Append(F[i - 1], items[i]) ELSE F[i - 1]
    IN F[Len(items)]
RepeatedIds(items) ==
    { items[i].id : i \in { i \in DOMAIN items : \E j \in 1..(i - 1) : items[j].id = items[i].id } }
SentItems == [k \in DOMAIN sends |-> sends[k].item]
CycleEnded == fetchCall.called /\ cycles = {}

\* C16: whatever sends fail, the check cycle raises nothing and goes through
\* the list get_latest_news returned in order: the sends issued so far are the
\* first of the items that are the first of their id, and when the cycle has
\* ended all of these were sent, the others returned at the guard, every send
\* was answered and every returned id is in the Dedup Set.
C16_SendFailureDoesNotStopCycle ==
    fetchCall.called =>
        /\ jobErrors = 0
        /\ Len(sends) <= Len(FirstOfId(fetchCall.news_items))
        /\ SentItems = SubSeq(FirstOfId(fetchCall.news_items), 1, Len(sends))
        /\ CycleEnded =>
              /\ SentItems = FirstOfId(fetchCall.news_items)
              /\ skipped = RepeatedIds(fetchCall.news_items)
              /\ PendingSends = {}
              /\ \A i \in DOMAIN fetchCall.news_items :
                     fetchCall.news_items[i].id \in sent_news_ids

\* Three items were returned; the first send failed, the other two followed.
C16_Witness ==
    /\ CycleEnded
    /\ Len(fetchCall.news_items) = 3
    /\ Len(sends) = 3
    /\ sends[1].status = "failed"
    /\ sends[3].status = "ok"

\* C17: with check cycles overlapping, no two sends are for one id; each
\* suspended cycle awaits a send whose id went into the Dedup Set before the
\* call was made, and no two suspended cycles await sends for the same id.
C17_OverlapSendsOncePerId ==
    /\ \A k1, k2 \in DOMAIN sends :
           sends[k1].item.id = sends[k2].item.id => k1 = k2
    /\ \A cy \in cycles :
           /\ cy.call \in PendingSends
           /\ sends[cy.call].marked
           /\ sends[cy.call].item.id \in sent_news_ids
    /\ \A cy1, cy2 \in cycles :
           sends[cy1.call].item.id = sends[cy2.call].item.id => cy1 = cy2

\* A second cycle started while the first awaited its send for "a" and issued
\* the send for "b", which is still awaited; the first cycle went on to its
\* own item "b" and returned at the guard.
C17_Witness ==
    /\ runs = 2
    /\ Len(sends) = 2
    /\ sends[1].item.id = "a"
    /\ sends[1].status # "pending"
    /\ sends[2].item.id = "b"
    /\ sends[2].status = "pending"
    /\ skipped = {"b"}
    /\ cycles = {[rest |-> <<>>, call |-> 2]}

\* C18: when delete_webhook raised, the session was closed and the scheduler
\* stopped right after it, runner.cleanup() returned, and main ended as it
\* would have with the webhook deleted: it returned after a cancellation and
\* raised the server's exception again after a failed start.
C18_DeleteFailureDoesNotStopShutdown ==
    \A i \in DOMAIN events :
        events[i] = "delete_webhook_failed" =>
            /\ SubSeq(events, i + 1, Len(events)) =
                   <<"session_close", "scheduler_shutdown", "runner_cleanup", "loop_close">>
            /\ session = "closed"
            /\ scheduler = "shutdown"
            /\ mainResult = IF InSeq("cancelled", events) THEN "returned" ELSE "raised"

\* delete_webhook raised in the shutdown after a cancellation, with a send
\* still awaited.
C18_Witness ==
    /\ InSeq("delete_webhook_failed", events)
    /\ InSeq("cancelled", events)
    /\ session = "closed"
    /\ mainResult = "returned"
    /\ PendingSends # {}

====
